---- MODULE Spec2Model ----
(***************************************************************************)
(* A model of DiscreteFactor.py: the Factor class, a labelled dense table  *)
(* over named discrete variables, with indexed access, join, evidence,     *)
(* marginalize, normalize and copy.                                        *)
(*                                                                         *)
(* Objects are modelled by reference.  A numpy array is a view             *)
(* [store, off, shape] onto a buffer of the heap `store`; a Factor is a    *)
(* record [domain, outcomeSpace, table] in the heap `factors`.  Table      *)
(* entries are exact rationals (rounding of float64 is not modelled); a    *)
(* denominator of 0 stands for the non-finite result of 0/0.               *)
(***************************************************************************)
EXTENDS Integers, Sequences, FiniteSets, TLC

VARIABLES factors, store, last, steps

vars == <<factors, store, last, steps>>

-----------------------------------------------------------------------------
(* Sequence helpers (Python list/tuple primitives)                         *)

Range(s) == {s[i] : i \in 1..Len(s)}

\* list.index(x), 1-based; 0 when x is absent (Python raises ValueError)
IndexOf(s, x) ==
    IF x \in Range(s) THEN CHOOSE i \in 1..Len(s) : s[i] = x /\ \A j \in 1..(i-1) : s[j] # x
    ELSE 0

\* the sequence without its k-th element
DropAt(s, k) == [i \in 1..(Len(s)-1) |-> IF i < k THEN s[i] ELSE s[i+1]]

\* list.remove(x): drops the first occurrence
RemoveFirst(s, x) == DropAt(s, IndexOf(s, x))

\* all orders in which the elements of a finite set can be listed
Orderings(S) ==
    {p \in [1..Cardinality(S) -> S] : \A i, j \in 1..Cardinality(S) : i # j => p[i] # p[j]}

SeqMax(s) == IF s = <<>> THEN 0 ELSE CHOOSE m \in Range(s) : \A x \in Range(s) : x <= m

-----------------------------------------------------------------------------
(* Table entries: non-negative rationals n/d in lowest terms; d = 0 is nan *)

RECURSIVE GCD(_, _)
GCD(a, b) == IF b = 0 THEN a ELSE GCD(b, a % b)

NaN == [n |-> 0, d |-> 0]

Rat(n, d) == IF d = 0 THEN NaN ELSE [n |-> n \div GCD(n, d), d |-> d \div GCD(n, d)]

RMul(a, b) == IF a.d = 0 \/ b.d = 0 THEN NaN ELSE Rat(a.n * b.n, a.d * b.d)

RAdd(a, b) == IF a.d = 0 \/ b.d = 0 THEN NaN ELSE Rat(a.n * b.d + b.n * a.d, a.d * b.d)

\* entries are never negative, so a zero divisor only meets a zero dividend
RDiv(a, b) == IF a.d = 0 \/ b.d = 0 \/ b.n = 0 THEN NaN ELSE Rat(a.n * b.d, a.d * b.n)

RECURSIVE RSum(_, _)
RSum(f, S) ==
    IF S = {} THEN Rat(0, 1)
    ELSE LET x == CHOOSE y \in S : TRUE IN RAdd(f[x], RSum(f, S \ {x}))

-----------------------------------------------------------------------------
(* Tensors: the value of a numpy array, [shape, cells], with 0-based index *)
(* tuples                                                                  *)

Indices(shape) ==
    {idx \in [1..Len(shape) -> 0..(SeqMax(shape) - 1)] : \A i \in 1..Len(shape) : idx[i] < shape[i]}

Tensor(shape, cells) == [shape |-> shape, cells |-> cells]

Size(shape) == Cardinality(Indices(shape))

\* np.sum(t): the grand total
Total(t) == RSum(t.cells, DOMAIN t.cells)

\* np.ones(shape) / np.sum(np.ones(shape))
Uniform(shape) == Tensor(shape, [idx \in Indices(shape) |-> Rat(1, Size(shape))])

\* np.expand_dims(t, -1): a trailing axis of size 1
ExpandDims(t) ==
    LET shape == Append(t.shape, 1)
    IN Tensor(shape, [idx \in Indices(shape) |-> t.cells[SubSeq(idx, 1, Len(t.shape))]])

RECURSIVE ExpandBy(_, _)
ExpandBy(t, k) == IF k = 0 THEN t ELSE ExpandBy(ExpandDims(t), k - 1)

\* t.transpose(axes): axis i of the result is axis axes[i] of t
Transpose(t, axes) ==
    LET n == Len(t.shape)
        shape == [i \in 1..n |-> t.shape[axes[i]]]
    IN Tensor(shape, [idx \in Indices(shape) |-> t.cells[[k \in 1..n |-> idx[IndexOf(axes, k)]]]])

\* numpy broadcasting of two arrays of the same rank
Broadcastable(s1, s2) ==
    /\ Len(s1) = Len(s2)
    /\ \A i \in 1..Len(s1) : s1[i] = s2[i] \/ s1[i] = 1 \/ s2[i] = 1

Multiply(t1, t2) ==
    LET n == Len(t1.shape)
        Clip(idx, shape) == [i \in 1..n |-> IF shape[i] = 1 THEN 0 ELSE idx[i]]
        shape == [i \in 1..n |-> IF t1.shape[i] = 1 THEN t2.shape[i] ELSE t1.shape[i]]
    IN Tensor(shape, [idx \in Indices(shape) |->
                         RMul(t1.cells[Clip(idx, t1.shape)], t2.cells[Clip(idx, t2.shape)])])

\* the reduction of one axis: the axis is removed, its entries added up
SumOver(t, axis) ==
    LET n == Len(t.shape)
        Ins(idx, k) == [i \in 1..n |-> IF i < axis THEN idx[i] ELSE IF i = axis THEN k ELSE idx[i-1]]
        Col(idx) == [k \in 0..(t.shape[axis] - 1) |-> t.cells[Ins(idx, k)]]
        shape == DropAt(t.shape, axis)
    IN Tensor(shape, [idx \in Indices(shape) |-> RSum(Col(idx), DOMAIN Col(idx))])

\* mutant of SumAxis: always reduces the first axis
SumAxis_first(t, axis) == SumOver(t, 1)

\* np.sum(t, axis)
SumAxis(t, axis) == SumOver(t, axis)

-----------------------------------------------------------------------------
(* The object heap.  An ndarray is a view [store, off, shape] onto the     *)
(* buffer store[store]; basic slicing yields a view on the same buffer,    *)
(* .copy(), deepcopy and arithmetic yield a fresh buffer.  Every rank-0    *)
(* table of the model is the result of np.sum or of arithmetic and hence   *)
(* a numpy scalar, which supports x[()] but not item assignment.           *)

Zeros(n) == [i \in 1..n |-> 0]

\* the array's value as seen through the view
ReadArr(st, arr) ==
    Tensor(arr.shape, [idx \in Indices(arr.shape) |->
                          st[arr.store].cells[[i \in 1..Len(idx) |-> idx[i] + arr.off[i]]]])

\* a new array holding tensor t; its view is NewArr
Alloc(st, t) == Append(st, t)

NewArr(st, t) == [store |-> Len(st) + 1, off |-> Zeros(Len(t.shape)), shape |-> t.shape]

\* table argument omitted (table=None)
None == [store |-> 0, off |-> <<>>, shape |-> <<>>]

\* the value of a heap object: what its methods can observe
FactorValue(fs, st, i) ==
    [domain |-> fs[i].domain, outcomeSpace |-> fs[i].outcomeSpace, table |-> ReadArr(st, fs[i].table)]

\* result of a method: the heap after it, the object returned (0: none), the
\* exception raised ("": none) and the value returned by a read
Outcome(fs, st, res, err, val) == [factors |-> fs, store |-> st, res |-> res, err |-> err, val |-> val]

Raise(fs, st, err) == Outcome(fs, st, 0, err, NaN)

-----------------------------------------------------------------------------
(* class Factor                                                            *)

\* Factor.__init__(domain, outcomeSpace, table=None)
Factor_init(fs, st, domain, outcomeSpace, table) ==
    LET shape == [i \in 1..Len(domain) |-> Len(outcomeSpace[domain[i]].vals)]
        t  == IF table = None THEN Uniform(shape) ELSE ReadArr(st, table)
        f  == [domain |-> domain, outcomeSpace |-> outcomeSpace, table |-> NewArr(st, t)]
    IN Outcome(Append(fs, f), Alloc(st, t), Len(fs) + 1, "", NaN)

\* mutant of copy: a shallow copy, whose table is the receiver's array
copy_shallow(fs, st, self) == Outcome(Append(fs, fs[self]), st, Len(fs) + 1, "", NaN)

\* copy.deepcopy(self)
copy(fs, st, self) ==
    LET t == ReadArr(st, fs[self].table)
        f == [fs[self] EXCEPT !.table = NewArr(st, t)]
    IN Outcome(Append(fs, f), Alloc(st, t), Len(fs) + 1, "", NaN)

\* a key as written by the caller: a tuple f[x, y], or a bare value f[x]
Tuple(items) == [isTuple |-> TRUE, items |-> items]

Bare(value) == [isTuple |-> FALSE, value |-> value]

\* if not isinstance(outcomes, tuple): outcomes = (outcomes,)
AsTuple(outcomes) == IF outcomes.isTuple THEN outcomes.items ELSE <<outcomes.value>>

\* the conversion of outcomes into array indices; a position past the end of
\* outcomes raises IndexError, a value that is not in the sequence ValueError
KeyIndices(f, outcomes) ==
    [i \in 1..Len(f.domain) |->
        IF i > Len(outcomes) THEN [ix |-> 0, err |-> "IndexError"]
        ELSE IF outcomes[i] \notin Range(f.outcomeSpace[f.domain[i]].vals)
             THEN [ix |-> 0, err |-> "ValueError"]
             ELSE [ix |-> IndexOf(f.outcomeSpace[f.domain[i]].vals, outcomes[i]) - 1, err |-> ""]]

FirstError(ks) ==
    IF \A i \in 1..Len(ks) : ks[i].err = "" THEN ""
    ELSE ks[CHOOSE i \in 1..Len(ks) : ks[i].err # "" /\ \A j \in 1..(i-1) : ks[j].err = ""].err

InBounds(arr, idx) == \A i \in 1..Len(idx) : idx[i] < arr.shape[i]

\* Factor.__getitem__(outcomes)
getitem(fs, st, self, key) ==
    LET f   == fs[self]
        outcomes == AsTuple(key)
        ks  == KeyIndices(f, outcomes)
        idx == [i \in 1..Len(ks) |-> ks[i].ix]
    IN IF Len(outcomes) # Len(f.domain) THEN Raise(fs, st, "AssertionError")
       ELSE IF FirstError(ks) # "" THEN Raise(fs, st, FirstError(ks))
       ELSE IF ~InBounds(f.table, idx) THEN Raise(fs, st, "IndexError")
       ELSE Outcome(fs, st, 0, "", ReadArr(st, f.table).cells[idx])

\* Factor.__setitem__(outcomes, new_value)
setitem(fs, st, self, key, new_value) ==
    LET f   == fs[self]
        outcomes == AsTuple(key)
        ks  == KeyIndices(f, outcomes)
        idx == [i \in 1..Len(ks) |-> ks[i].ix]
        buf == [i \in 1..Len(ks) |-> ks[i].ix + f.table.off[i]]
    IN IF FirstError(ks) # "" THEN Raise(fs, st, FirstError(ks))
       ELSE IF Len(f.table.shape) = 0 THEN Raise(fs, st, "TypeError")
       ELSE IF ~InBounds(f.table, idx) THEN Raise(fs, st, "IndexError")
       ELSE Outcome(fs, [st EXCEPT ![f.table.store].cells[buf] = new_value], 0, "", NaN)

\* Factor.join(other).  ord1 and ord2 are the orders in which Python lists
\* the sets set(other.domain) - set(self.domain) (line 106) and
\* set(self.domain) - set(other.domain) (line 123): set iteration order is
\* hash order, not insertion order, and for strings changes from run to run.
join(fs, st, self, other, ord1, ord2) ==
    LET A == fs[self]
        B == fs[other]
        shared    == Range(B.domain) \cap Range(A.domain)
        new_dom   == A.domain \o ord1
        self_t    == ExpandBy(ReadArr(st, A.table), Cardinality(Range(B.domain) \ Range(A.domain)))
        other_e   == ExpandBy(ReadArr(st, B.table), Cardinality(Range(A.domain) \ Range(B.domain)))
        old_order == B.domain \o ord2
        new_order == [i \in 1..Len(new_dom) |-> IndexOf(old_order, new_dom[i])]
        other_t   == Transpose(other_e, new_order)
        new_table == Multiply(self_t, other_t)
        new_outcomeSpace ==
            [v \in DOMAIN A.outcomeSpace \cup DOMAIN B.outcomeSpace |->
                IF v \in DOMAIN B.outcomeSpace THEN B.outcomeSpace[v] ELSE A.outcomeSpace[v]]
    IN IF \E v \in shared : A.outcomeSpace[v] # B.outcomeSpace[v] THEN Raise(fs, st, "IndexError")
       ELSE IF ~Broadcastable(self_t.shape, other_t.shape) THEN Raise(fs, st, "ValueError")
       ELSE Factor_init(fs, Alloc(st, new_table), new_dom, new_outcomeSpace, NewArr(st, new_table))

\* mutant of SliceAxis: keeps the first entry of the axis, whatever valuepos
SliceAxis_first(arr, axis, valuepos) == [arr EXCEPT !.shape[axis] = IF @ = 0 THEN 0 ELSE 1]

\* f.table[slices] with slice(valuepos, valuepos+1) on one axis: a view on the
\* same buffer; a start past the end of the axis gives an empty axis
SliceAxis(arr, axis, valuepos) ==
    IF valuepos < arr.shape[axis]
    THEN [arr EXCEPT !.off[axis] = @ + valuepos, !.shape[axis] = 1]
    ELSE [arr EXCEPT !.shape[axis] = 0]

\* the loop of Factor.evidence over kwargs[k..]; valuepos = -1: not yet bound
RECURSIVE EvidenceLoop(_, _, _, _, _)
EvidenceLoop(selfF, f, kwargs, k, valuepos) ==
    IF k > Len(kwargs) THEN [f |-> f, err |-> ""]
    ELSE LET var   == kwargs[k][1]
             value == kwargs[k][2]
         IN IF var \notin Range(f.domain) THEN EvidenceLoop(selfF, f, kwargs, k + 1, valuepos)
            ELSE LET vp == IF value \in Range(f.outcomeSpace[var].vals)
                           THEN IndexOf(selfF.outcomeSpace[var].vals, value) - 1
                           ELSE valuepos
                     g  == [f EXCEPT !.table = SliceAxis(@, IndexOf(f.domain, var), vp),
                                     !.outcomeSpace[var] = [kind |-> "tuple", vals |-> <<value>>]]
                 IN IF vp = -1 THEN [f |-> f, err |-> "UnboundLocalError"]
                    ELSE EvidenceLoop(selfF, g, kwargs, k + 1, vp)

\* Factor.evidence(**kwargs); kwargs is the sequence of <<var, value>> pairs
evidence(fs, st, self, kwargs) ==
    LET c == copy(fs, st, self)
        r == EvidenceLoop(fs[self], c.factors[c.res], kwargs, 1, -1)
    IN IF r.err # "" THEN Raise(fs, st, r.err)
       ELSE Outcome([c.factors EXCEPT ![c.res] = r.f], c.store, c.res, "", NaN)

\* Factor.marginalize(var)
marginalize(fs, st, self, var) ==
    LET f         == fs[self]
        new_dom   == RemoveFirst(f.domain, var)
        axis      == IndexOf(f.domain, var)
        new_table == SumAxis(ReadArr(st, f.table), axis)
    IN IF var \notin Range(f.domain) THEN Raise(fs, st, "ValueError")
       ELSE Factor_init(fs, Alloc(st, new_table), new_dom, f.outcomeSpace, NewArr(st, new_table))

\* Factor.normalize(): rebinds self.table to a new array, returns self
normalize(fs, st, self) ==
    LET t == ReadArr(st, fs[self].table)
        q == Tensor(t.shape, [idx \in Indices(t.shape) |-> RDiv(t.cells[idx], Total(t))])
    IN Outcome([fs EXCEPT ![self].table = NewArr(st, q)], Alloc(st, q), self, "", NaN)

-----------------------------------------------------------------------------
(* The caller: a small network over three variables.  Outcome sequences    *)
(* are Python lists, as in the class's docstrings; their order differs     *)
(* from the order of the values, and C has a single outcome.               *)

MaxOps == 2

MaxEv == 2

MaxCalls == 1

MaxFrameOps == 2

Vars == {"A", "B", "C"}

Vals == {1, 2}

List(vals) == [kind |-> "list", vals |-> vals]

NetworkOutcomeSpace == [A |-> List(<<1, 2>>), B |-> List(<<2, 1>>), C |-> List(<<1>>)]

BaseDomains == <<(<<"A">>), (<<"C", "B">>)>>

\* the outcomeSpace argument: the mapping of the whole network, or only the
\* entries of the factor's own variables
OutcomeSpaceArgs(domain) == {NetworkOutcomeSpace, [v \in Range(domain) |-> NetworkOutcomeSpace[v]]}

\* the caller's table for a domain: entries 1, 2, 3, ... in row-major order
CallerTable(shape) ==
    LET RECURSIVE Pos(_, _)
        Pos(idx, i) == IF i = 0 THEN 0 ELSE Pos(idx, i - 1) * shape[i] + idx[i]
    IN Tensor(shape, [idx \in Indices(shape) |-> Rat(1 + Pos(idx, Len(shape)), 1)])

ShapeOf(domain) == [i \in 1..Len(domain) |-> Len(NetworkOutcomeSpace[domain[i]].vals)]

\* kwargs of evidence: up to MaxEv named variables, each once, in call order
EvidenceArgs ==
    UNION {{kw \in [1..n -> Vars \X Vals] : \A i, j \in 1..n : i # j => kw[i][1] # kw[j][1]} : n \in 1..MaxEv}

\* keys of f[...]: a bare value, or a tuple of any length up to one more than
\* the domain's
KeyArgs(f) ==
    {Bare(v) : v \in Vals} \cup {Tuple(k) : k \in UNION {[1..n -> Vals] : n \in 0..(Len(f.domain) + 1)}}

\* keys that are joint assignments of f's domain
JointKeys(f) ==
    {Tuple(k) : k \in {key \in [1..Len(f.domain) -> Vals] :
                          \A i \in 1..Len(key) : key[i] \in Range(f.outcomeSpace[f.domain[i]].vals)}}

NewValues == {Rat(0, 1), Rat(7, 2)}

NoPre == [shape |-> <<>>, cells |-> <<>>]

Call(op, self, other, kwargs, key, var, x, pre, r) ==
    [op |-> op, self |-> self, other |-> other, kwargs |-> kwargs, key |-> key, var |-> var,
     x |-> x, pre |-> pre, res |-> r.res, err |-> r.err, val |-> r.val]

NoCall == Call("", 0, 0, <<>>, <<>>, "", NaN, NoPre, Raise(<<>>, <<>>, ""))

\* construct one base factor, with the caller's table or the default one
Construct(h, domain, outcomeSpace, given) ==
    IF given
    THEN Factor_init(h.factors, Alloc(h.store, CallerTable(ShapeOf(domain))), domain, outcomeSpace,
                     NewArr(h.store, CallerTable(ShapeOf(domain))))
    ELSE Factor_init(h.factors, h.store, domain, outcomeSpace, None)

Init ==
    \E os1 \in OutcomeSpaceArgs(BaseDomains[1]), os2 \in OutcomeSpaceArgs(BaseDomains[2]), g1, g2 \in BOOLEAN :
        LET h0 == Raise(<<>>, <<>>, "")
            h1 == Construct(h0, BaseDomains[1], os1, g1)
            h2 == Construct(h1, BaseDomains[2], os2, g2)
        IN /\ factors = h2.factors
           /\ store = h2.store
           /\ last = NoCall
           /\ steps = 0

\* one call by the caller: the heap becomes the method's, the call is recorded
Apply(r, call, bound) ==
    /\ steps < bound
    /\ steps' = steps + 1
    /\ factors' = r.factors
    /\ store' = r.store
    /\ last' = call

Pre(i) == ReadArr(store, factors[i].table)

\* g = f.copy()
CopyStep(bound) ==
    \E i \in 1..Len(factors) :
        LET r == copy(factors, store, i)
        IN Apply(r, Call("copy", i, 0, <<>>, <<>>, "", NaN, Pre(i), r), bound)

\* g = f.join(h), also written f * h
JoinStep(bound) ==
    \E i, j \in 1..Len(factors) :
        \E ord1 \in Orderings(Range(factors[j].domain) \ Range(factors[i].domain)),
           ord2 \in Orderings(Range(factors[i].domain) \ Range(factors[j].domain)) :
            LET r == join(factors, store, i, j, ord1, ord2)
            IN Apply(r, Call("join", i, j, <<>>, <<>>, "", NaN, Pre(i), r), bound)

\* g = f.evidence(**kw)
EvidenceStep(args, bound) ==
    \E i \in 1..Len(factors), kw \in args :
        LET r == evidence(factors, store, i, kw)
        IN Apply(r, Call("evidence", i, 0, kw, <<>>, "", NaN, Pre(i), r), bound)

\* g = f.marginalize(var)
MarginalizeStep(bound) ==
    \E i \in 1..Len(factors), var \in Vars :
        LET r == marginalize(factors, store, i, var)
        IN Apply(r, Call("marginalize", i, 0, <<>>, <<>>, var, NaN, Pre(i), r), bound)

\* f.normalize()
NormalizeStep(bound) ==
    \E i \in 1..Len(factors) :
        LET r == normalize(factors, store, i)
        IN Apply(r, Call("normalize", i, 0, <<>>, <<>>, "", NaN, Pre(i), r), bound)

\* f[key]
GetItemStep(bound) ==
    \E i \in 1..Len(factors) : \E key \in KeyArgs(factors[i]) :
        LET r == getitem(factors, store, i, key)
        IN Apply(r, Call("getitem", i, 0, <<>>, AsTuple(key), "", NaN, Pre(i), r), bound)

\* f[key] = x, with keys of any length or only the factor's joint assignments
SetItemStep(anyKey, values, bound) ==
    \E i \in 1..Len(factors) :
        \E key \in IF anyKey THEN KeyArgs(factors[i]) ELSE JointKeys(factors[i]), x \in values :
            LET r == setitem(factors, store, i, key, x)
            IN Apply(r, Call("setitem", i, 0, <<>>, AsTuple(key), "", x, Pre(i), r), bound)

(* Spec: every operation, on the two factors of the network               *)

Copy == CopyStep(MaxOps)

Join == JoinStep(MaxOps)

Evidence == EvidenceStep(EvidenceArgs, MaxOps)

Marginalize == MarginalizeStep(MaxOps)

Normalize == NormalizeStep(MaxOps)

GetItem == GetItemStep(MaxOps)

SetItem == SetItemStep(TRUE, NewValues, MaxOps)

Next == Copy \/ Join \/ Evidence \/ Marginalize \/ Normalize \/ GetItem \/ SetItem

Spec == Init /\ [][Next]_vars

(* SpecUnary: evidence and marginalize on one factor the caller built over *)
(* any non-empty domain                                                    *)

Domains == UNION {Orderings(S) : S \in SUBSET Vars \ {{}}}

InitUnary ==
    \E domain \in Domains, given \in BOOLEAN :
        \E os \in OutcomeSpaceArgs(domain) :
            LET h == Construct(Raise(<<>>, <<>>, ""), domain, os, given)
            IN /\ factors = h.factors
               /\ store = h.store
               /\ last = NoCall
               /\ steps = 0

UnaryEvidence == EvidenceStep(EvidenceArgs, MaxCalls)

UnaryMarginalize == MarginalizeStep(MaxCalls)

NextUnary == UnaryEvidence \/ UnaryMarginalize

SpecUnary == InitUnary /\ [][NextUnary]_vars

(* SpecFrame: the operations that create or change objects, with few       *)
(* arguments each, to follow aliasing over longer call sequences           *)

FrameEvidenceArgs == {<< <<"B", 1>> >>, << <<"A", 2>>, <<"C", 1>> >>}

FrameValues == {Rat(7, 2)}

FrameCopy == CopyStep(MaxFrameOps)

FrameJoin == JoinStep(MaxFrameOps)

FrameEvidence == EvidenceStep(FrameEvidenceArgs, MaxFrameOps)

FrameMarginalize == MarginalizeStep(MaxFrameOps)

FrameNormalize == NormalizeStep(MaxFrameOps)

FrameSetItem == SetItemStep(FALSE, FrameValues, MaxFrameOps)

NextFrame ==
    FrameCopy \/ FrameJoin \/ FrameEvidence \/ FrameMarginalize \/ FrameNormalize \/ FrameSetItem

InitFrame ==
    \E g1, g2 \in BOOLEAN :
        LET h1 == Construct(Raise(<<>>, <<>>, ""), BaseDomains[1], NetworkOutcomeSpace, g1)
            h2 == Construct(h1, BaseDomains[2], NetworkOutcomeSpace, g2)
        IN /\ factors = h2.factors
           /\ store = h2.store
           /\ last = NoCall
           /\ steps = 0

SpecFrame == InitFrame /\ [][NextFrame]_vars

-----------------------------------------------------------------------------
(* Vocabulary of the claims                                                *)

\* invariant I1 for a heap object: axis i has one entry per outcome of domain[i]
I1(f) ==
    /\ Len(f.table.shape) = Len(f.domain)
    /\ \A i \in 1..Len(f.domain) : f.table.shape[i] = Len(f.outcomeSpace[f.domain[i]].vals)

\* joint assignments of a set of variables, each taken from the outcome
\* sequence that os gives it
Assignments(U, os) == {a \in [U -> Vals] : \A v \in U : a[v] \in Range(os[v].vals)}

\* the key of assignment a for a domain: one value per variable, in domain order
KeyOf(domain, a) == [i \in 1..Len(domain) |-> a[domain[i]]]

\* f.get(key) as the class computes it on the current heap
Get(i, key) == getitem(factors, store, i, Tuple(key))

Self == factors[last.self]

Other == factors[last.other]

Result == factors[last.res]

Returned(op) == last.op = op /\ last.err = ""

\* C1: a join of two factors returns a factor whose value at every joint
\* assignment over the union domain is the product of the operands' values
\* at its projections.
C1_JoinIsProduct ==
    (Returned("join") /\ I1(Self) /\ I1(Other)) =>
        LET os == [v \in Range(Self.domain) \cup Range(Other.domain) |->
                      IF v \in Range(Self.domain) THEN Self.outcomeSpace[v] ELSE Other.outcomeSpace[v]]
        IN \A a \in Assignments(DOMAIN os, os) :
              LET r == Get(last.res, KeyOf(Result.domain, a))
              IN /\ r.err = ""
                 /\ r.val = RMul(Get(last.self, KeyOf(Self.domain, a)).val,
                                 Get(last.other, KeyOf(Other.domain, a)).val)

\* every in-domain variable named in the kwargs has a value of its sequence
ValidEvidence(f, kwargs) ==
    \A k \in 1..Len(kwargs) :
        kwargs[k][1] \in Range(f.domain) => kwargs[k][2] \in Range(f.outcomeSpace[kwargs[k][1]].vals)

\* C2: I1 is preserved: an operation applied to factors that satisfy I1
\* (evidence with values of the outcome sequences) returns a factor that
\* satisfies I1.
C2_I1Preserved ==
    (/\ last.op \in {"copy", "join", "evidence", "marginalize", "normalize"}
     /\ last.err = ""
     /\ I1(Self)
     /\ last.op = "join" => I1(Other)
     /\ last.op = "evidence" => ValidEvidence(Self, last.kwargs))
        => I1(Result)

\* C3: the domain of A.join(B) is A.domain followed by the variables of
\* B.domain that are not in A.domain, in the order they have in B.domain.
C3_JoinDomainOrder ==
    Returned("join") =>
        LET InSelf(v) == v \notin Range(Self.domain)
        IN Result.domain = Self.domain \o SelectSeq(Other.domain, InSelf)

\* C4: a variable named in evidence that is absent from the domain, or whose
\* value is not in its outcome sequence, is a silent no-op: no error, and the
\* returned factor keeps that variable's axis and outcome sequence.
C4_EvidenceNoOp ==
    last.op = "evidence" =>
        \A k \in 1..Len(last.kwargs) :
            LET var   == last.kwargs[k][1]
                value == last.kwargs[k][2]
                axis  == IndexOf(Self.domain, var)
            IN (var \notin Range(Self.domain) \/ value \notin Range(Self.outcomeSpace[var].vals)) =>
                  /\ last.err = ""
                  /\ var \in DOMAIN Self.outcomeSpace => Result.outcomeSpace[var] = Self.outcomeSpace[var]
                  /\ var \in Range(Self.domain) => Result.table.shape[axis] = Self.table.shape[axis]

\* C5: a join raises the incompatible-outcome-space error exactly when a
\* variable of both domains has sequences that differ in values or order,
\* and succeeds whenever all of them hold the same values in the same order.
C5_JoinCompatibility ==
    last.op = "join" =>
        LET differ == \E v \in Range(Self.domain) \cap Range(Other.domain) :
                          Self.outcomeSpace[v].vals # Other.outcomeSpace[v].vals
        IN /\ (last.err = "IndexError") <=> differ
           /\ ~differ => last.err = ""

\* the in-domain variables named in the kwargs of the last call
Named == {k \in 1..Len(last.kwargs) : last.kwargs[k][1] \in Range(Self.domain)}

\* the joint assignments of Self's domain that agree with the kwargs
Consistent ==
    {a \in Assignments(Range(Self.domain), Self.outcomeSpace) :
        \A k \in Named : a[last.kwargs[k][1]] = last.kwargs[k][2]}

\* C6: evidence with values of the outcome sequences returns a factor of
\* the same domain and rank, whose outcome sequence for each named variable
\* V=x is exactly (x,), whose value at every assignment that agrees with the
\* evidence is f's value there, and whose total mass is the sum of those
\* values.
C6_EvidenceRestricts ==
    (last.op = "evidence" /\ I1(Self) /\ ValidEvidence(Self, last.kwargs)) =>
        /\ last.err = ""
        /\ Result.domain = Self.domain
        /\ Len(Result.table.shape) = Len(Self.table.shape)
        /\ \A k \in Named :
              Result.outcomeSpace[last.kwargs[k][1]] = [kind |-> "tuple", vals |-> <<last.kwargs[k][2]>>]
        /\ \A a \in Consistent :
              /\ Get(last.res, KeyOf(Self.domain, a)).err = ""
              /\ Get(last.res, KeyOf(Self.domain, a)).val = Get(last.self, KeyOf(Self.domain, a)).val
        /\ LET mass == [a \in Consistent |-> Get(last.self, KeyOf(Self.domain, a)).val]
           IN Total(ReadArr(store, Result.table)) = RSum(mass, Consistent)

\* C6 witness: two named variables of the domain, one of them at a value that
\* is not the first of its sequence, on a table of distinct entries
C6_Witness ==
    /\ Returned("evidence")
    /\ I1(Self) /\ ValidEvidence(Self, last.kwargs)
    /\ Cardinality(Named) = 2
    /\ \E k \in Named : Result.table.off[IndexOf(Self.domain, last.kwargs[k][1])] > 0
    /\ \E i, j \in DOMAIN last.pre.cells : last.pre.cells[i] # last.pre.cells[j]

\* C7: marginalize(v) for v in the domain returns a factor over the domain
\* without v, the other variables in their order, whose value at each
\* assignment is the sum of f's values over the outcomes of v, and whose
\* total is f's total; also when v is the only variable.
C7_MarginalizeSums ==
    (last.op = "marginalize" /\ last.var \in Range(Self.domain) /\ I1(Self)) =>
        LET Keep(v) == v # last.var
            With(a, x) == [v \in Range(Self.domain) |-> IF v = last.var THEN x ELSE a[v]]
            outcomes == Range(Self.outcomeSpace[last.var].vals)
        IN /\ last.err = ""
           /\ Result.domain = SelectSeq(Self.domain, Keep)
           /\ \A a \in Assignments(Range(Result.domain), Self.outcomeSpace) :
                 LET col == [x \in outcomes |-> Get(last.self, KeyOf(Self.domain, With(a, x))).val]
                     r   == Get(last.res, KeyOf(Result.domain, a))
                 IN r.err = "" /\ r.val = RSum(col, outcomes)
           /\ Total(ReadArr(store, Result.table)) = Total(ReadArr(store, Self.table))

\* C7 witness: the middle variable of a three-variable domain, with two
\* outcomes, is summed out of a table of distinct entries
C7_Witness ==
    /\ Returned("marginalize")
    /\ I1(Self)
    /\ Len(Self.domain) = 3 /\ last.var = Self.domain[2]
    /\ Len(Self.outcomeSpace[last.var].vals) = 2
    /\ \E i, j \in DOMAIN last.pre.cells : last.pre.cells[i] # last.pre.cells[j]

\* the only variable of a factor is summed out: an empty domain, one value
C7_OnlyVariable ==
    /\ Returned("marginalize")
    /\ I1(Self)
    /\ Result.domain = <<>>
    /\ Get(last.res, <<>>).val = Total(last.pre)

\* the receiver of the step's call, when the call is one that changes it
Mutated == IF last'.op \in {"setitem", "normalize"} THEN {last'.self} ELSE {}

FrameCondition ==
    /\ \A i \in 1..Len(factors) :
          /\ factors'[i].domain = factors[i].domain
          /\ factors'[i].outcomeSpace = factors[i].outcomeSpace
          /\ i \notin Mutated => ReadArr(store', factors'[i].table) = ReadArr(store, factors[i].table)
    /\ \A s \in 1..Len(store) :
          (\A i \in Mutated : factors[i].table.store # s) => store'[s] = store[s]

\* C8: a call changes no existing factor's domain, outcome space or table
\* cells, and no array of the caller, except that set and normalize change
\* the table of their own receiver.
C8_Frame == [][FrameCondition]_vars

\* C8 witness: a cell of a factor returned by evidence (a view at an offset)
\* has been overwritten with a new value
C8_Witness ==
    /\ Returned("setitem")
    /\ last.self > Len(BaseDomains)
    /\ \E k \in 1..Len(Self.table.off) : Self.table.off[k] > 0
    /\ ReadArr(store, Self.table) # last.pre

\* C9: an indexed read or write with a number of values other than
\* len(domain) fails, and the failing write changes no cell.
C9_LengthMismatchFails ==
    (last.op \in {"getitem", "setitem"} /\ Len(last.key) # Len(Self.domain)) =>
        /\ last.err # ""
        /\ ReadArr(store, Self.table) = last.pre

\* C10: on a factor that satisfies I1, set(a, x) followed by get(a) returns
\* x, and get(b) of every other joint assignment b returns what it did
\* before the set.
C10_SetGetRoundTrip ==
    (/\ last.op = "setitem"
     /\ I1(Self)
     /\ \E a \in Assignments(Range(Self.domain), Self.outcomeSpace) : last.key = KeyOf(Self.domain, a))
        => /\ last.err = ""
           /\ Get(last.self, last.key).val = last.x
           /\ \A b \in Assignments(Range(Self.domain), Self.outcomeSpace) :
                 KeyOf(Self.domain, b) # last.key =>
                    LET ks == KeyIndices(Self, KeyOf(Self.domain, b))
                    IN Get(last.self, KeyOf(Self.domain, b)).val = last.pre.cells[[i \in 1..Len(ks) |-> ks[i].ix]]

====
